---- MODULE Spec2Model ----
(***************************************************************************)
(* A model of ppixiv's image_data cache (src/src/image_data.js): the       *)
(* identifier-keyed metadata cache with its fetch ledger, its pending      *)
(* callback queues and the deferred (setTimeout 0) work it schedules.      *)
(*                                                                         *)
(* JavaScript objects are modelled by identity: an illust_data object is   *)
(* an index into the heap illust_objs, a user_data object an index into    *)
(* user_objs.  Every response body and every injected record is a new      *)
(* object.                                                                 *)
(*                                                                         *)
(* The second half models image_preloader (src/unnamed/part_001): the two  *)
(* preload targets, the list of running _preloader objects and the queue   *)
(* of recently preloaded URLs.  A _preloader object is an index into the   *)
(* heap preload_objs.  The cache and the preloader have their own          *)
(* specifications (Spec / LiveSpec and PreloadSpec / LongRunSpec).         *)
(***************************************************************************)
EXTENDS Integers, Sequences, FiniteSets, TLC

(* ---------------------------------------------------------------------- *)
(* Bounds and the world the cache talks to                                 *)
(* ---------------------------------------------------------------------- *)

\* Number of calls the view layer makes into the cache in one behaviour.
MaxOps == 3

\* JavaScript null / undefined (no object, no id).
NULL == 0

\* Illustration ids and user ids known to the site.
Items == {1, 2}
Users == {1, 2}

\* The userId field the site reports for an illustration: both belong to user 1.
SiteUserId(illust_id) == 1

\* The illustType field the site reports: illustration 2 is a video (type 2).
SiteIllustType(illust_id) == IF illust_id = 2 THEN 2 ELSE 0

\* An illust_data record as the site (or a list endpoint) hands it over.
NewIllustData(illust_id) ==
    [illustId |-> illust_id, userId |-> SiteUserId(illust_id),
     illustType |-> SiteIllustType(illust_id),
     userInfo |-> NULL, ugoiraMetadata |-> "unset"]

\* Callback handles: the n-th callback registered is handle n.  The view
\* layer registers the handles of CallbackIds; a callback that calls back
\* into the cache when it runs can register one more each.
CallbackIds == 1..MaxOps
AllCallbackIds == 1..(2 * MaxOps)

\* What a callback function does when it is called, as <<what, id>>: it
\* returns, it throws, or it calls one of the cache's functions for id
\* (get_image_info and get_user_info with a callback that returns) and then
\* returns.  NoCallback is the null passed for "just fetch the data".
Returns == <<"return", NULL>>
Throws == <<"throw", NULL>>
NoCallback == <<"null", NULL>>
Reentrant ==
    {<<"get_image_info", illust_id>> : illust_id \in Items}
    \cup {<<"get_user_info", user_id>> : user_id \in Users}
    \cup {<<"add_illust_data", illust_id>> : illust_id \in Items}
    \cup {<<"add_user_data", user_id>> : user_id \in Users}

VARIABLES
    image_data,                 \* illust_id -> illust_data object | NULL
    user_data,                  \* user_id -> user_data object | NULL
    illust_id_to_user_id,       \* illust_id -> hinted user_id | NULL
    loading_image_data_ids,     \* set of illust_id
    loading_user_data_ids,      \* set of user_id
    pending_image_info_calls,   \* sequence of <<illust_id, callback>>
    pending_user_info_calls,    \* sequence of <<user_id, callback>>
    illust_objs,                \* heap of illust_data objects
    user_objs,                  \* heap of user_data objects (their userId)
    timers,                     \* setTimeout(..., 0) queue, oldest first
    net_illust,                 \* illust_id -> /ajax/illust requests in flight
    net_user,                   \* user_id -> /ajax/user requests in flight
    net_ugoira,                 \* illust_data objects awaiting ugoira_meta
    callbacks,                  \* callback handle -> <<kind, id, ready at
                                \*   registration, what it does>>
    fired,                      \* callback handle -> sequence of its invocations
    failed,                     \* set of <<kind, id>> fetches that returned an error
    console,                    \* number of console.error calls of the cache
    ops                         \* calls made by the view layer so far

vars == <<image_data, user_data, illust_id_to_user_id, loading_image_data_ids,
          loading_user_data_ids, pending_image_info_calls, pending_user_info_calls,
          illust_objs, user_objs, timers, net_illust, net_user, net_ugoira,
          callbacks, fired, failed, console, ops>>

VARIABLES
    current_illust_id,          \* illust_id shown | NULL
    current_illust_info,        \* its illust_info | NULL
    speculative_illust_id,      \* illust_id to load speculatively | NULL
    speculative_illust_info,    \* its illust_info | NULL
    preloads,                   \* sequence of _preloader objects being run
    recently_preloaded_urls,    \* sequence of URLs, oldest first
    preload_objs,               \* heap of _preloader objects
    awaiting,                   \* <<slot, illust_id>> -> suspended set_*_image calls
    thumbs_preloaded,           \* illust_ids handed to helpers.preload_images
    target_changes              \* set_*_image calls so far that changed a target

pvars == <<current_illust_id, current_illust_info, speculative_illust_id,
           speculative_illust_info, preloads, recently_preloaded_urls,
           preload_objs, awaiting, thumbs_preloaded, target_changes>>

\* The whole state as one record, so that a handler is a function of it.
\* exception is the exception being thrown, if any: it exists only while a
\* handler runs.
State ==
    [image_data |-> image_data, user_data |-> user_data,
     illust_id_to_user_id |-> illust_id_to_user_id,
     loading_image_data_ids |-> loading_image_data_ids,
     loading_user_data_ids |-> loading_user_data_ids,
     pending_image_info_calls |-> pending_image_info_calls,
     pending_user_info_calls |-> pending_user_info_calls,
     illust_objs |-> illust_objs, user_objs |-> user_objs, timers |-> timers,
     net_illust |-> net_illust, net_user |-> net_user, net_ugoira |-> net_ugoira,
     callbacks |-> callbacks, fired |-> fired, failed |-> failed,
     console |-> console, exception |-> FALSE]

\* The step from the current state to state record t.
Commit(t) ==
    \E r \in {t} :
        /\ image_data' = r.image_data
        /\ user_data' = r.user_data
        /\ illust_id_to_user_id' = r.illust_id_to_user_id
        /\ loading_image_data_ids' = r.loading_image_data_ids
        /\ loading_user_data_ids' = r.loading_user_data_ids
        /\ pending_image_info_calls' = r.pending_image_info_calls
        /\ pending_user_info_calls' = r.pending_user_info_calls
        /\ illust_objs' = r.illust_objs
        /\ user_objs' = r.user_objs
        /\ timers' = r.timers
        /\ net_illust' = r.net_illust
        /\ net_user' = r.net_user
        /\ net_ugoira' = r.net_ugoira
        /\ callbacks' = r.callbacks
        /\ fired' = r.fired
        /\ failed' = r.failed
        /\ console' = r.console
        /\ UNCHANGED pvars

\* Array.prototype.splice(i, 1) on a 1-based sequence.
Splice1(seq, i) == SubSeq(seq, 1, i - 1) \o SubSeq(seq, i + 1, Len(seq))

(* ---------------------------------------------------------------------- *)
(* Collaborators: the timer queue and the transport of helpers             *)
(* ---------------------------------------------------------------------- *)

\* setTimeout(f, 0): f runs in a later turn, after the timers queued before it.
setTimeout(s, op, arg) ==
    [s EXCEPT !.timers = Append(@, [op |-> op, arg |-> arg])]

\* helpers.get_request("/ajax/illust/" + illust_id, {}, this.loaded_image_info)
get_request_illust(s, illust_id) ==
    [s EXCEPT !.net_illust[illust_id] = @ + 1]

\* helpers.get_request("/ajax/user/" + user_id, {}, this.loaded_user_info)
get_request_user(s, user_id) ==
    [s EXCEPT !.net_user[user_id] = @ + 1]

\* helpers.fetch_ugoira_metadata(illust_id, callback): the callback closes over
\* the illust_data object.
fetch_ugoira_metadata(s, illust_data) ==
    [s EXCEPT !.net_ugoira = @ \cup {illust_data}]

(* ---------------------------------------------------------------------- *)
(* Object allocation: response bodies and injected records                 *)
(* ---------------------------------------------------------------------- *)

alloc_illust(s, illust_id) ==
    [s EXCEPT !.illust_objs = Append(@, NewIllustData(illust_id))]

alloc_user(s, user_id) ==
    [s EXCEPT !.user_objs = Append(@, user_id)]

(* ---------------------------------------------------------------------- *)
(* image_data                                                              *)
(* ---------------------------------------------------------------------- *)

RECURSIVE get_image_info(_, _, _), get_user_info(_, _, _)
RECURSIVE add_illust_data(_, _), add_user_data(_, _)

\* The body of a callback function of the view layer, run in state s.
run_behaviour(s, behaviour) ==
    CASE behaviour[1] = "throw" -> [s EXCEPT !.exception = TRUE]
      [] behaviour[1] = "get_image_info" ->
            get_image_info(s, behaviour[2], Returns)
      [] behaviour[1] = "get_user_info" ->
            get_user_info(s, behaviour[2], Returns)
      [] behaviour[1] = "add_illust_data" ->
            CHOOSE r \in {add_illust_data(s1, Len(s1.illust_objs)) :
                            s1 \in {alloc_illust(s, behaviour[2])}} : TRUE
      [] behaviour[1] = "add_user_data" ->
            CHOOSE r \in {add_user_data(s1, Len(s1.user_objs)) :
                            s1 \in {alloc_user(s, behaviour[2])}} : TRUE
      [] OTHER -> s

\* callback(illust_data): the call is recorded with what the callback was
\* handed and with what the cache held at that moment, then its body runs.
run_image_callback(s, callback, illust_data) ==
    CHOOSE r \in {run_behaviour(s1, s.callbacks[callback][4]) : s1 \in
        {[s EXCEPT !.fired[callback] = Append(@,
            [arg |-> illust_data,
             userInfo |-> s.illust_objs[illust_data].userInfo,
             cached_illust |-> s.image_data[s.callbacks[callback][2]],
             cached_user |-> s.user_data[s.illust_objs[illust_data].userId]])]}}
        : TRUE

\* callback(user_data)
run_user_callback(s, callback, user_obj) ==
    CHOOSE r \in {run_behaviour(s1, s.callbacks[callback][4]) : s1 \in
        {[s EXCEPT !.fired[callback] = Append(@,
            [arg |-> user_obj,
             userInfo |-> NULL,
             cached_illust |-> NULL,
             cached_user |-> s.user_data[s.callbacks[callback][2]]])]}}
        : TRUE

\* catch(e) { console.error(e); } around the call of a callback.
catch_and_log(s) ==
    IF s.exception THEN [s EXCEPT !.exception = FALSE, !.console = @ + 1]
    ELSE s

\* The user record looked up through the hint, where there is one, instead of
\* through the illustration's own userId.
pending_user_data_hinted(s, illust_data) ==
    LET hinted == s.illust_id_to_user_id[s.illust_objs[illust_data].illustId]
    IN  IF hinted # NULL THEN s.user_data[hinted]
        ELSE s.user_data[s.illust_objs[illust_data].userId]

\* var user_data = this.user_data[illust_data.userId]
pending_user_data(s, illust_data) ==
    s.user_data[s.illust_objs[illust_data].userId]

\* The first loop of call_pending_callbacks without its wait for the user data.
RECURSIVE scan_image_info_calls_no_user_wait(_, _)
scan_image_info_calls_no_user_wait(s, i) ==
    IF i > Len(s.pending_image_info_calls) THEN s
    ELSE
        LET pending == s.pending_image_info_calls[i]
            illust_data == s.image_data[pending[1]]
        IN  IF illust_data = NULL THEN scan_image_info_calls_no_user_wait(s, i + 1)
            ELSE
                LET user_obj == s.user_data[s.illust_objs[illust_data].userId]
                    s1 == [s EXCEPT
                            !.illust_objs[illust_data].userInfo = user_obj,
                            !.pending_image_info_calls = Splice1(@, i)]
                IN  CHOOSE r \in
                        {scan_image_info_calls_no_user_wait(s2, i) :
                            s2 \in {catch_and_log(
                                        run_image_callback(s1, pending[2],
                                                           illust_data))}} : TRUE

\* The first loop of call_pending_callbacks without its try / catch: an
\* exception of a callback ends the loop.
RECURSIVE scan_image_info_calls_uncaught(_, _)
scan_image_info_calls_uncaught(s, i) ==
    IF i > Len(s.pending_image_info_calls) THEN s
    ELSE
        LET pending == s.pending_image_info_calls[i]
            illust_data == s.image_data[pending[1]]
        IN  IF illust_data = NULL THEN scan_image_info_calls_uncaught(s, i + 1)
            ELSE
                LET user_obj == pending_user_data(s, illust_data)
                IN  IF user_obj = NULL
                    THEN scan_image_info_calls_uncaught(s, i + 1)
                    ELSE
                        LET s1 == [s EXCEPT
                                    !.illust_objs[illust_data].userInfo = user_obj,
                                    !.pending_image_info_calls = Splice1(@, i)]
                        IN  CHOOSE r \in
                                {IF s2.exception THEN s2
                                 ELSE scan_image_info_calls_uncaught(s2, i) :
                                    s2 \in {run_image_callback(
                                                s1, pending[2], illust_data)}}
                                : TRUE

\* The first loop of call_pending_callbacks, from index i of the live list.
RECURSIVE scan_image_info_calls(_, _)
scan_image_info_calls(s, i) ==
    IF i > Len(s.pending_image_info_calls) THEN s
    ELSE
        LET pending == s.pending_image_info_calls[i]
            illust_id == pending[1]
            callback == pending[2]
            illust_data == s.image_data[illust_id]
        IN  IF illust_data = NULL THEN scan_image_info_calls(s, i + 1)
            ELSE
                LET user_obj == pending_user_data(s, illust_data)
                IN  IF user_obj = NULL THEN scan_image_info_calls(s, i + 1)
                    ELSE
                        LET s1 == [s EXCEPT
                                    !.illust_objs[illust_data].userInfo = user_obj,
                                    !.pending_image_info_calls = Splice1(@, i)]
                        IN  CHOOSE r \in
                                {scan_image_info_calls(s2, i) :
                                    s2 \in {catch_and_log(
                                                run_image_callback(
                                                    s1, callback, illust_data))}}
                                : TRUE

\* The second loop of call_pending_callbacks.
RECURSIVE scan_user_info_calls(_, _)
scan_user_info_calls(s, i) ==
    IF i > Len(s.pending_user_info_calls) THEN s
    ELSE
        LET pending == s.pending_user_info_calls[i]
            user_id == pending[1]
            callback == pending[2]
            user_obj == s.user_data[user_id]
        IN  IF user_obj = NULL THEN scan_user_info_calls(s, i + 1)
            ELSE
                LET s1 == [s EXCEPT !.pending_user_info_calls = Splice1(@, i)]
                IN  CHOOSE r \in
                        {scan_user_info_calls(s2, i) :
                            s2 \in {catch_and_log(
                                        run_user_callback(s1, callback,
                                                          user_obj))}} : TRUE

\* The first loop of call_pending_callbacks going through the copy of the
\* list made when the scan began instead of through the list itself.
RECURSIVE scan_image_info_calls_over_copy(_, _, _)
scan_image_info_calls_over_copy(s, copy, i) ==
    IF i > Len(copy) THEN s
    ELSE
        LET pending == copy[i]
            illust_data == s.image_data[pending[1]]
        IN  IF illust_data = NULL
            THEN scan_image_info_calls_over_copy(s, copy, i + 1)
            ELSE
                LET user_obj == pending_user_data(s, illust_data)
                IN  IF user_obj = NULL
                    THEN scan_image_info_calls_over_copy(s, copy, i + 1)
                    ELSE
                        LET s1 == [s EXCEPT
                                    !.illust_objs[illust_data].userInfo = user_obj,
                                    !.pending_image_info_calls =
                                        SelectSeq(@, LAMBDA e : e # pending)]
                        IN  CHOOSE r \in
                                {scan_image_info_calls_over_copy(s2, copy, i + 1) :
                                    s2 \in {catch_and_log(
                                                run_image_callback(
                                                    s1, pending[2], illust_data))}}
                                : TRUE

\* call_pending_callbacks with its first loop going through the copy.
call_pending_callbacks_over_copy(s) ==
    CHOOSE r \in {scan_user_info_calls(s1, 1) :
                    s1 \in {scan_image_info_calls_over_copy(
                                s, s.pending_image_info_calls, 1)}} : TRUE

\* (CHOOSE r \in {F(x) : x \in {e}} : TRUE is F(e), with e computed once.)
call_pending_callbacks(s) ==
    CHOOSE r \in {scan_user_info_calls(s1, 1) :
                    s1 \in {scan_image_info_calls(s, 1)}} : TRUE

\* load_user_info firing the waiting callbacks at once when the user is cached.
load_user_info_immediate(s, user_id) ==
    IF user_id \in s.loading_user_data_ids THEN s
    ELSE IF s.user_data[user_id] # NULL
         THEN call_pending_callbacks(s)
         ELSE get_request_user(
                [s EXCEPT !.loading_user_data_ids = @ \cup {user_id}], user_id)

load_user_info(s, user_id) ==
    IF user_id \in s.loading_user_data_ids THEN s
    ELSE IF s.user_data[user_id] # NULL
         THEN setTimeout(s, "call_pending_callbacks", NULL)
         ELSE get_request_user(
                [s EXCEPT !.loading_user_data_ids = @ \cup {user_id}], user_id)

\* load_image_info without the "already loading this illustration" test.
load_image_info_unguarded(s, illust_id) ==
    LET cached_user_id == s.illust_id_to_user_id[illust_id]
        s1 == IF cached_user_id # NULL THEN load_user_info(s, cached_user_id) ELSE s
    IN  IF s1.image_data[illust_id] # NULL
        THEN load_user_info(s1, s1.illust_objs[s1.image_data[illust_id]].userId)
        ELSE get_request_illust(
                [s1 EXCEPT !.loading_image_data_ids = @ \cup {illust_id}],
                illust_id)

load_image_info(s, illust_id) ==
    LET cached_user_id == s.illust_id_to_user_id[illust_id]
        s1 == IF cached_user_id # NULL THEN load_user_info(s, cached_user_id) ELSE s
    IN  IF illust_id \in s1.loading_image_data_ids THEN s1
        ELSE IF s1.image_data[illust_id] # NULL
             THEN load_user_info(s1, s1.illust_objs[s1.image_data[illust_id]].userId)
             ELSE get_request_illust(
                    [s1 EXCEPT !.loading_image_data_ids = @ \cup {illust_id}],
                    illust_id)

\* Registering a callback gives it the next handle; the registration notes
\* whether everything the callback waits for was cached already.
register(s, kind, id, callback) ==
    LET ready == IF kind = "image"
                 THEN /\ s.image_data[id] # NULL
                      /\ s.user_data[s.illust_objs[s.image_data[id]].userId] # NULL
                 ELSE s.user_data[id] # NULL
    IN  [s EXCEPT !.callbacks = Append(@, <<kind, id, ready, callback>>)]

\* callback is what the function passed does, or NoCallback.
get_image_info(s, illust_id, callback) ==
    IF callback # NoCallback
    THEN CHOOSE r \in {load_image_info(s2, illust_id) : s2 \in
            {[s1 EXCEPT !.pending_image_info_calls =
                            Append(@, <<illust_id, Len(s1.callbacks)>>)] :
                s1 \in {register(s, "image", illust_id, callback)}}} : TRUE
    ELSE load_image_info(s, illust_id)

get_user_info(s, user_id, callback) ==
    IF callback # NoCallback
    THEN CHOOSE r \in {load_user_info(s2, user_id) : s2 \in
            {[s1 EXCEPT !.pending_user_info_calls =
                            Append(@, <<user_id, Len(s1.callbacks)>>)] :
                s1 \in {register(s, "user", user_id, callback)}}} : TRUE
    ELSE load_user_info(s, user_id)

\* finished_loading_image_data loading the user at once instead of through
\* setTimeout.
finished_loading_image_data_immediate(s, illust_data) ==
    LET illust_id == s.illust_objs[illust_data].illustId
        s1 == [s EXCEPT !.loading_image_data_ids = @ \ {illust_id},
                        !.image_data[illust_id] = illust_data]
    IN  load_user_info(s1, s.illust_objs[illust_data].userId)

\* The closure finished_loading_image_data of loaded_image_info.
finished_loading_image_data(s, illust_data) ==
    LET illust_id == s.illust_objs[illust_data].illustId
        s1 == [s EXCEPT !.loading_image_data_ids = @ \ {illust_id},
                        !.image_data[illust_id] = illust_data]
    IN  setTimeout(s1, "load_user_info", s.illust_objs[illust_data].userId)

\* loaded_image_info running the pending callbacks when the result is an error.
loaded_image_info_error_scans(s, illust_result) ==
    IF illust_result.error THEN call_pending_callbacks(s)
    ELSE
        LET illust_data == illust_result.body
            illust_id == s.illust_objs[illust_data].illustId
            s1 == [s EXCEPT !.loading_image_data_ids = @ \cup {illust_id}]
        IN  IF s.illust_objs[illust_data].illustType = 2
            THEN fetch_ugoira_metadata(s1, illust_data)
            ELSE finished_loading_image_data(s1, illust_data)

\* illust_result is [error, body]: body is an illust_data object.
loaded_image_info(s, illust_result) ==
    IF illust_result.error THEN s
    ELSE
        LET illust_data == illust_result.body
            illust_id == s.illust_objs[illust_data].illustId
            s1 == [s EXCEPT !.loading_image_data_ids = @ \cup {illust_id}]
        IN  IF s.illust_objs[illust_data].illustType = 2
            THEN fetch_ugoira_metadata(s1, illust_data)
            ELSE finished_loading_image_data(s1, illust_data)

\* The callback loaded_image_info hands to fetch_ugoira_metadata; ugoira_result
\* is [error, body].
loaded_ugoira_metadata(s, illust_data, ugoira_result) ==
    finished_loading_image_data(
        [s EXCEPT !.illust_objs[illust_data].ugoiraMetadata = ugoira_result.body],
        illust_data)

\* loaded_user_info storing the record without running the pending callbacks.
loaded_user_info_no_scan(s, user_result) ==
    IF user_result.error THEN s
    ELSE
        LET user_obj == user_result.body
            user_id == s.user_objs[user_obj]
        IN  [s EXCEPT !.loading_user_data_ids = @ \ {user_id},
                      !.user_data[user_id] = user_obj]

\* user_result is [error, body]: body is a user_data object.
loaded_user_info(s, user_result) ==
    IF user_result.error THEN s
    ELSE
        LET user_obj == user_result.body
            user_id == s.user_objs[user_obj]
            s1 == [s EXCEPT !.loading_user_data_ids = @ \ {user_id},
                            !.user_data[user_id] = user_obj]
        IN  call_pending_callbacks(s1)

\* add_illust_data writing the record into the cache map and nothing else.
add_illust_data_store_only(s, illust_data) ==
    [s EXCEPT !.image_data[s.illust_objs[illust_data].illustId] = illust_data]

add_illust_data(s, illust_data) ==
    loaded_image_info(s, [error |-> FALSE, body |-> illust_data])

add_user_data(s, user_obj) ==
    loaded_user_info(s, [error |-> FALSE, body |-> user_obj])

set_user_id_for_illust_id(s, illust_id, user_id) ==
    [s EXCEPT !.illust_id_to_user_id[illust_id] = user_id]

(* ---------------------------------------------------------------------- *)
(* image_preloader: the illustrations it is told about                     *)
(* ---------------------------------------------------------------------- *)

\* Number of set_current_image / set_speculative_image calls that change a
\* target in one behaviour.
MaxTargetChanges == 2

\* Illustration ids the view layer names as targets.
TargetIds == {1, 2, 3, 4}

\* A manga with LongPages pages, for the long run in which
\* recently_preloaded_urls fills up; LongRunStarts preloads are started in it.
LongPages == 1000
LongRunStarts == 1003
LongId == 5

\* Largest page count of the illust_data records that candidate derivation
\* is checked on.
MaxInputPages == 3

\* The two targets of the preloader.
Slots == {"current", "speculative"}

\* mangaPages.length as the site reports it: illustration 3 has four pages.
SitePageCount(illust_id) ==
    IF illust_id = 3 THEN 4 ELSE IF illust_id = LongId THEN LongPages ELSE 1

\* tags.tags as the site reports them: illustration 4 carries a muted tag.
SiteTags(illust_id) == IF illust_id = 4 THEN {"tag", "muted"} ELSE {"tag"}

\* The muting singleton: what the user has muted.
MutedTags == {"muted"}
MutedUserIds == {9}

any_tag_muted(tags) == tags \cap MutedTags # {}

is_muted_user_id(user_id) == user_id \in MutedUserIds

\* A URL is <<illust_id, kind, page>>.
Url(illust_id, kind, page) == <<illust_id, kind, page>>

\* The fields of an illust_info record that the preloader reads.
MakeIllustInfo(illust_id, user_id, illust_type, tags, pages) ==
    [illustId |-> illust_id, userId |-> user_id, illustType |-> illust_type,
     tags |-> [tags |-> tags], pageCount |-> pages,
     mangaPages |-> [p \in 1..pages |->
                        [urls |-> [small |-> Url(illust_id, "small", p),
                                   original |-> Url(illust_id, "original", p)]]],
     urls |-> [original |-> Url(illust_id, "original", 1)],
     ugoiraMetadata |-> [originalSrc |-> Url(illust_id, "zip", 0)]]

\* The illust_info that get_image_info resolves to for illust_id.  The
\* preloader holds it by reference: the reference is written as the id.
IllustInfo(illust_info) ==
    MakeIllustInfo(illust_info, SiteUserId(illust_info),
                   SiteIllustType(illust_info), SiteTags(illust_info),
                   SitePageCount(illust_info))

\* The preloader's state as one record.
PState ==
    [current_illust_id |-> current_illust_id,
     current_illust_info |-> current_illust_info,
     speculative_illust_id |-> speculative_illust_id,
     speculative_illust_info |-> speculative_illust_info,
     preloads |-> preloads,
     recently_preloaded_urls |-> recently_preloaded_urls,
     preload_objs |-> preload_objs, awaiting |-> awaiting,
     thumbs_preloaded |-> thumbs_preloaded, target_changes |-> target_changes]

\* The step of the preloader from the current state to state record t.
PCommit(t) ==
    \E r \in {t} :
        /\ current_illust_id' = r.current_illust_id
        /\ current_illust_info' = r.current_illust_info
        /\ speculative_illust_id' = r.speculative_illust_id
        /\ speculative_illust_info' = r.speculative_illust_info
        /\ preloads' = r.preloads
        /\ recently_preloaded_urls' = r.recently_preloaded_urls
        /\ preload_objs' = r.preload_objs
        /\ awaiting' = r.awaiting
        /\ thumbs_preloaded' = r.thumbs_preloaded
        /\ target_changes' = r.target_changes
        /\ UNCHANGED vars

(* ---------------------------------------------------------------------- *)
(* _preloader, _img_preloader, _xhr_preloader                              *)
(* ---------------------------------------------------------------------- *)

\* new _img_preloader(url) / new _xhr_preloader(url): not started yet.
new_img_preloader(url) == [url |-> url, strategy |-> "img"]
new_xhr_preloader(url) == [url |-> url, strategy |-> "xhr"]

\* A _preloader object as its constructor leaves it: abort_controller is
\* undefined (FALSE stands for undefined and for null) and start() was not
\* called.  starts and abort_calls count the calls of start() and of
\* abort_controller.abort().
construct(s, preload) ==
    [s EXCEPT !.preload_objs =
        Append(@, [url |-> preload.url, strategy |-> preload.strategy,
                   abort_controller |-> FALSE, aborted |-> FALSE,
                   settled |-> FALSE, starts |-> 0, abort_calls |-> 0,
                   started_at |->
                      [target_changes |-> 0, infos |-> <<NULL, NULL>>]])]

\* preload.start() on the object p: it gets its AbortController and the
\* transfer begins.  started_at notes the targets the preloader had at that
\* moment.
start_object(s, p) ==
    [s EXCEPT !.preload_objs[p].abort_controller = TRUE,
              !.preload_objs[p].starts = @ + 1,
              !.preload_objs[p].started_at =
                    [target_changes |-> s.target_changes,
                     infos |-> <<s.current_illust_info,
                                 s.speculative_illust_info>>]]

\* preload.start() on a preloader that create_preloaders_for_illust made:
\* the object enters the heap when it is started.
start(s, preload) ==
    CHOOSE r \in {start_object(s1, Len(s1.preload_objs)) :
                    s1 \in {construct(s, preload)}} : TRUE

\* _preloader.cancel() aborting without forgetting the AbortController.
cancel_keeps_controller(s, p) ==
    IF ~s.preload_objs[p].abort_controller THEN s
    ELSE [s EXCEPT !.preload_objs[p].abort_calls = @ + 1,
                   !.preload_objs[p].aborted = @ \/ ~s.preload_objs[p].settled]

\* _preloader.cancel() on the object p.  abort() reaches the transfer only
\* while it is in progress: aborted says that it did.
cancel(s, p) ==
    IF ~s.preload_objs[p].abort_controller THEN s
    ELSE [s EXCEPT !.preload_objs[p].abort_calls = @ + 1,
                   !.preload_objs[p].aborted = @ \/ ~s.preload_objs[p].settled,
                   !.preload_objs[p].abort_controller = FALSE]

(* ---------------------------------------------------------------------- *)
(* image_preloader                                                         *)
(* ---------------------------------------------------------------------- *)

\* var concurrent_preloads = 5
concurrent_preloads == 5

\* The length recently_preloaded_urls is cut back to.
recently_preloaded_limit == 1000

\* create_preloaders_for_illust preloading the original of every page.
create_preloaders_for_illust_all_pages(illust_data) ==
    IF any_tag_muted(illust_data.tags.tags) THEN <<>>
    ELSE IF is_muted_user_id(illust_data.userId) THEN <<>>
    ELSE IF illust_data.illustType = 2
    THEN <<new_xhr_preloader(illust_data.ugoiraMetadata.originalSrc),
           new_img_preloader(illust_data.urls.original)>>
    ELSE [p \in 1..Len(illust_data.mangaPages) |->
                new_img_preloader(illust_data.mangaPages[p].urls.small)]
         \o [p \in 1..Len(illust_data.mangaPages) |->
                new_img_preloader(illust_data.mangaPages[p].urls.original)]

\* The _preloader objects for one illustration, in priority order.
create_preloaders_for_illust(illust_data) ==
    IF any_tag_muted(illust_data.tags.tags) THEN <<>>
    ELSE IF is_muted_user_id(illust_data.userId) THEN <<>>
    ELSE IF illust_data.illustType = 2
    THEN <<new_xhr_preloader(illust_data.ugoiraMetadata.originalSrc),
           new_img_preloader(illust_data.urls.original)>>
    ELSE CHOOSE results \in
            {[p \in 1..Len(mangaPages) |->
                    new_img_preloader(mangaPages[p].urls.small)]
             \o (IF Len(mangaPages) >= 1
                 THEN <<new_img_preloader(mangaPages[1].urls.original)>>
                 ELSE <<>>) : mangaPages \in {illust_data.mangaPages}} : TRUE

\* helpers.preload_images(thumbs) for an illustration with two pages or more.
preload_thumbs(s, illust_info) ==
    IF IllustInfo(illust_info).pageCount < 2 THEN s
    ELSE [s EXCEPT !.thumbs_preloaded = @ \cup {illust_info}]

\* _find_active_preload_by_url overlooking the preloads that were cancelled.
find_active_preload_by_url_running_only(s, url) ==
    IF \E i \in DOMAIN s.preloads :
            /\ s.preload_objs[s.preloads[i]].url = url
            /\ ~s.preload_objs[s.preloads[i]].aborted
    THEN s.preloads[CHOOSE i \in DOMAIN s.preloads :
                        /\ s.preload_objs[s.preloads[i]].url = url
                        /\ ~s.preload_objs[s.preloads[i]].aborted]
    ELSE NULL

\* The preloader in this.preloads that is loading url, or NULL.
find_active_preload_by_url(s, url) ==
    IF \E i \in DOMAIN s.preloads : s.preload_objs[s.preloads[i]].url = url
    THEN s.preloads[CHOOSE i \in DOMAIN s.preloads :
                        /\ s.preload_objs[s.preloads[i]].url = url
                        /\ \A j \in 1..(i - 1) :
                                s.preload_objs[s.preloads[j]].url # url]
    ELSE NULL

\* wanted_preloads listing the speculative illustration first.
wanted_preloads_speculative_first(s) ==
    (IF s.speculative_illust_info # NULL
     THEN create_preloaders_for_illust(IllustInfo(s.speculative_illust_info))
     ELSE <<>>)
    \o (IF s.current_illust_info # NULL
        THEN create_preloaders_for_illust(IllustInfo(s.current_illust_info))
        ELSE <<>>)

\* check_fetch_queue: the fetches we want to be running, in priority order.
wanted_preloads(s) ==
    (IF s.current_illust_info # NULL
     THEN create_preloaders_for_illust(IllustInfo(s.current_illust_info))
     ELSE <<>>)
    \o (IF s.speculative_illust_info # NULL
        THEN create_preloaders_for_illust(IllustInfo(s.speculative_illust_info))
        ELSE <<>>)

\* filtered_preloads keeping the URLs that finished recently.
filtered_preloads_unfiltered(s) ==
    LET wanted == wanted_preloads(s)
    IN  SubSeq(wanted, 1, IF Len(wanted) > concurrent_preloads
                          THEN concurrent_preloads ELSE Len(wanted))

\* check_fetch_queue: wanted_preloads without the URLs that finished
\* recently, cut to the first concurrent_preloads entries.
filtered_preloads(s) ==
    CHOOSE list \in
        {SubSeq(filtered, 1, IF Len(filtered) > concurrent_preloads
                             THEN concurrent_preloads ELSE Len(filtered)) :
            filtered \in
                {LET NotRecent(preload) == preload.url \notin recent
                 IN  SelectSeq(wanted, NotRecent) :
                    recent \in {{urls[i] : i \in DOMAIN urls} :
                                    urls \in {s.recently_preloaded_urls}},
                    wanted \in {wanted_preloads(s)}}} : TRUE

\* recently_preloaded_urls.push(url) without the splice.
remember_url_unbounded(recent, url) == Append(recent, url)

\* recently_preloaded_urls.push(url); splice(0, length - 1000).
remember_url(recent, url) ==
    LET pushed == Append(recent, url)
        excess == Len(pushed) - recently_preloaded_limit
    IN  IF excess > 0 THEN SubSeq(pushed, excess + 1, Len(pushed)) ELSE pushed

\* check_fetch_queue's last loop dropping the preloads it cancels.
RECURSIVE cancel_unwanted_dropping(_, _, _)
cancel_unwanted_dropping(s, updated_preload_list, i) ==
    IF i > Len(s.preloads) THEN [s EXCEPT !.preloads = updated_preload_list]
    ELSE LET preload == s.preloads[i]
         IN  IF \E k \in DOMAIN updated_preload_list :
                    updated_preload_list[k] = preload
             THEN cancel_unwanted_dropping(s, updated_preload_list, i + 1)
             ELSE cancel_unwanted_dropping(cancel(s, preload),
                                           updated_preload_list, i + 1)

\* check_fetch_queue's last loop keeping the other preloads without
\* cancelling them.
RECURSIVE cancel_unwanted_keeps_running(_, _, _)
cancel_unwanted_keeps_running(s, updated_preload_list, i) ==
    IF i > Len(s.preloads) THEN [s EXCEPT !.preloads = updated_preload_list]
    ELSE LET preload == s.preloads[i]
         IN  IF \E k \in DOMAIN updated_preload_list :
                    updated_preload_list[k] = preload
             THEN cancel_unwanted_keeps_running(s, updated_preload_list, i + 1)
             ELSE cancel_unwanted_keeps_running(
                        s, Append(updated_preload_list, preload), i + 1)

\* check_fetch_queue's last loop, from position i of this.preloads, and the
\* assignment of updated_preload_list to this.preloads.
RECURSIVE cancel_unwanted(_, _, _)
cancel_unwanted(s, updated_preload_list, i) ==
    IF i > Len(s.preloads) THEN [s EXCEPT !.preloads = updated_preload_list]
    ELSE LET preload == s.preloads[i]
         IN  IF \E k \in DOMAIN updated_preload_list :
                    updated_preload_list[k] = preload
             THEN cancel_unwanted(s, updated_preload_list, i + 1)
             ELSE CHOOSE r \in
                    {cancel_unwanted(s1, list1, i + 1) :
                        s1 \in {cancel(s, preload)},
                        list1 \in {Append(updated_preload_list, preload)}} : TRUE

\* check_fetch_queue starting its first candidate whatever is running.
check_fetch_queue_eager(s) ==
    LET filtered == filtered_preloads(s)
    IN  IF Len(filtered) = 0 THEN s
        ELSE LET s1 == start(s, filtered[1])
             IN  cancel_unwanted(s1, <<Len(s1.preload_objs)>>, 1)

\* check_fetch_queue starting the first candidate that is not being loaded,
\* whatever else of the list is.
check_fetch_queue_first_idle(s) ==
    LET filtered == filtered_preloads(s)
        idle == {i \in DOMAIN filtered :
                    find_active_preload_by_url(s, filtered[i].url) = NULL}
    IN  IF idle = {} THEN s
        ELSE LET s1 == start(s, filtered[CHOOSE i \in idle :
                                            \A j \in idle : i <= j])
             IN  cancel_unwanted(s1, <<Len(s1.preload_objs)>>, 1)

\* check_fetch_queue cancelling what is in this.preloads when it wants no
\* preload.
check_fetch_queue_empty_cancels(s) ==
    LET filtered == filtered_preloads(s)
    IN  IF Len(filtered) = 0 THEN cancel_unwanted(s, <<>>, 1)
        ELSE IF \E i \in DOMAIN filtered :
                    find_active_preload_by_url(s, filtered[i].url) # NULL
        THEN s
        ELSE LET s1 == start(s, filtered[1])
             IN  cancel_unwanted(s1, <<Len(s1.preload_objs)>>, 1)

\* See if we need to start or stop preloads.
check_fetch_queue(s) ==
    CHOOSE r \in UNION {
        {IF Len(filtered) = 0 THEN s0
         ELSE IF \E i \in DOMAIN filtered :
                    find_active_preload_by_url(s0, filtered[i].url) # NULL
         THEN s0
         ELSE CHOOSE r1 \in {cancel_unwanted(s1, <<Len(s1.preload_objs)>>, 1) :
                                s1 \in {start(s0, filtered[1])}} : TRUE :
            filtered \in {filtered_preloads(s0)}} : s0 \in {s}} : TRUE

\* preloads.indexOf(preload), 0 standing for -1.
IndexOf(seq, x) ==
    IF \E i \in DOMAIN seq : seq[i] = x
    THEN CHOOSE i \in DOMAIN seq : seq[i] = x /\ \A j \in 1..(i - 1) : seq[j] # x
    ELSE 0

\* The finally handler re-evaluating the queue only after a success.
preload_finished_success_only(s, preload, outcome) ==
    LET s1 == [s EXCEPT !.recently_preloaded_urls =
                            remember_url(@, s.preload_objs[preload].url)]
        idx == IndexOf(s1.preloads, preload)
    IN  IF idx = 0 THEN s1
        ELSE IF outcome # "loaded"
        THEN [s1 EXCEPT !.preloads = Splice1(@, idx)]
        ELSE check_fetch_queue([s1 EXCEPT !.preloads = Splice1(@, idx)])

\* The finally handler removing the preload without calling
\* check_fetch_queue.
preload_finished_no_recheck(s, preload, outcome) ==
    LET s1 == [s EXCEPT !.recently_preloaded_urls =
                            remember_url(@, s.preload_objs[preload].url)]
        idx == IndexOf(s1.preloads, preload)
    IN  IF idx = 0 THEN s1
        ELSE [s1 EXCEPT !.preloads = Splice1(@, idx)]

\* The handler check_fetch_queue attaches with preload.start().finally(...):
\* it runs when the transfer has settled, whatever the outcome.
preload_finished(s, preload, outcome) ==
    CHOOSE r \in UNION {
        {IF idx = 0 THEN s1
         ELSE check_fetch_queue([s1 EXCEPT !.preloads = Splice1(@, idx)]) :
            idx \in {IndexOf(s1.preloads, preload)}} :
        s1 \in {[s0 EXCEPT !.recently_preloaded_urls =
                            remember_url(@, s0.preload_objs[preload].url)] :
                    s0 \in {s}}} : TRUE

\* await image_data.singleton().get_image_info(illust_id): the call is
\* suspended until the cache has the illust_info.
await_get_image_info(s, slot, illust_id) ==
    [s EXCEPT !.awaiting[<<slot, illust_id>>] = @ + 1]

\* set_current_image forgetting the preloads of the target it replaces.
set_current_image_clears_preloads(s, illust_id) ==
    IF s.current_illust_id = illust_id THEN s
    ELSE LET s1 == [s EXCEPT !.current_illust_id = illust_id,
                             !.current_illust_info = NULL,
                             !.preloads = <<>>,
                             !.target_changes = @ + 1]
         IN  IF illust_id = NULL THEN s1
             ELSE await_get_image_info(s1, "current", illust_id)

\* set_current_image up to its await.
set_current_image(s, illust_id) ==
    IF s.current_illust_id = illust_id THEN s
    ELSE LET s1 == [s EXCEPT !.current_illust_id = illust_id,
                             !.current_illust_info = NULL,
                             !.target_changes = @ + 1]
         IN  IF illust_id = NULL THEN s1
             ELSE await_get_image_info(s1, "current", illust_id)

\* set_current_image after its await, storing whatever illust_info arrives.
set_current_image_resumed_unchecked(s, illust_id, illust_info) ==
    check_fetch_queue(
        preload_thumbs([s EXCEPT !.current_illust_info = illust_info],
                       illust_info))

\* set_current_image after its await: illust_id is the argument of the call.
set_current_image_resumed(s, illust_id, illust_info) ==
    IF s.current_illust_id # illust_id \/ s.current_illust_info # NULL THEN s
    ELSE check_fetch_queue(
            preload_thumbs([s EXCEPT !.current_illust_info = illust_info],
                           illust_info))

\* set_speculative_image up to its await.
set_speculative_image(s, illust_id) ==
    IF s.speculative_illust_id = illust_id THEN s
    ELSE LET s1 == [s EXCEPT !.speculative_illust_id = illust_id,
                             !.speculative_illust_info = NULL,
                             !.target_changes = @ + 1]
         IN  IF illust_id = NULL THEN s1
             ELSE await_get_image_info(s1, "speculative", illust_id)

\* set_speculative_image after its await.
set_speculative_image_resumed(s, illust_id, illust_info) ==
    IF s.speculative_illust_id # illust_id \/ s.speculative_illust_info # NULL
    THEN s
    ELSE check_fetch_queue(
            preload_thumbs([s EXCEPT !.speculative_illust_info = illust_info],
                           illust_info))

(* ---------------------------------------------------------------------- *)
(* Actions                                                                 *)
(* ---------------------------------------------------------------------- *)

Init ==
    /\ image_data = [i \in Items |-> NULL]
    /\ user_data = [u \in Users |-> NULL]
    /\ illust_id_to_user_id = [i \in Items |-> NULL]
    /\ loading_image_data_ids = {}
    /\ loading_user_data_ids = {}
    /\ pending_image_info_calls = <<>>
    /\ pending_user_info_calls = <<>>
    /\ illust_objs = <<>>
    /\ user_objs = <<>>
    /\ timers = <<>>
    /\ net_illust = [i \in Items |-> 0]
    /\ net_user = [u \in Users |-> 0]
    /\ net_ugoira = {}
    /\ callbacks = <<>>
    /\ fired = [c \in AllCallbackIds |-> <<>>]
    /\ failed = {}
    /\ console = 0
    /\ ops = 0
    /\ current_illust_id = NULL
    /\ current_illust_info = NULL
    /\ speculative_illust_id = NULL
    /\ speculative_illust_info = NULL
    /\ preloads = <<>>
    /\ recently_preloaded_urls = <<>>
    /\ preload_objs = <<>>
    /\ awaiting = [w \in Slots \X (TargetIds \cup {LongId}) |-> 0]
    /\ thumbs_preloaded = {}
    /\ target_changes = 0

\* The view layer calls get_image_info(illust_id, callback); callback may be null.
RequestItem(illust_id, with_callback) ==
    /\ ops < MaxOps
    /\ ops' = ops + 1
    /\ Commit(get_image_info(State, illust_id,
                              IF with_callback THEN Returns ELSE NoCallback))

\* The view layer calls get_user_info(user_id, callback); callback may be null.
RequestOwner(user_id, with_callback) ==
    /\ ops < MaxOps
    /\ ops' = ops + 1
    /\ Commit(get_user_info(State, user_id,
                             IF with_callback THEN Returns ELSE NoCallback))

\* A data source calls add_illust_data with a record it got elsewhere.
InjectItem(illust_id) ==
    /\ ops < MaxOps
    /\ ops' = ops + 1
    /\ LET s1 == alloc_illust(State, illust_id)
       IN  Commit(add_illust_data(s1, Len(s1.illust_objs)))

\* A data source calls add_user_data.
InjectOwner(user_id) ==
    /\ ops < MaxOps
    /\ ops' = ops + 1
    /\ LET s1 == alloc_user(State, user_id)
       IN  Commit(add_user_data(s1, Len(s1.user_objs)))

\* A data source calls set_user_id_for_illust_id.
NoteOwnerForItem(illust_id, user_id) ==
    /\ ops < MaxOps
    /\ ops' = ops + 1
    /\ Commit(set_user_id_for_illust_id(State, illust_id, user_id))

\* /ajax/illust/<id> answers with the record.
IllustFetchSucceeds(illust_id) ==
    /\ net_illust[illust_id] > 0
    /\ LET s1 == alloc_illust([State EXCEPT !.net_illust[illust_id] = @ - 1],
                              illust_id)
       IN  Commit(loaded_image_info(s1, [error |-> FALSE,
                                         body |-> Len(s1.illust_objs)]))
    /\ UNCHANGED ops

\* /ajax/illust/<id> answers with an error result.
IllustFetchFails(illust_id) ==
    /\ net_illust[illust_id] > 0
    /\ LET s1 == [State EXCEPT !.net_illust[illust_id] = @ - 1,
                               !.failed = @ \cup {<<"image", illust_id>>}]
       IN  Commit(loaded_image_info(s1, [error |-> TRUE, body |-> NULL]))
    /\ UNCHANGED ops

\* /ajax/user/<id> answers with the record.
UserFetchSucceeds(user_id) ==
    /\ net_user[user_id] > 0
    /\ LET s1 == alloc_user([State EXCEPT !.net_user[user_id] = @ - 1], user_id)
       IN  Commit(loaded_user_info(s1, [error |-> FALSE,
                                        body |-> Len(s1.user_objs)]))
    /\ UNCHANGED ops

\* /ajax/user/<id> answers with an error result.
UserFetchFails(user_id) ==
    /\ net_user[user_id] > 0
    /\ LET s1 == [State EXCEPT !.net_user[user_id] = @ - 1,
                               !.failed = @ \cup {<<"user", user_id>>}]
       IN  Commit(loaded_user_info(s1, [error |-> TRUE, body |-> NULL]))
    /\ UNCHANGED ops

\* ugoira_meta answers with the frame data.
UgoiraFetchSucceeds(illust_data) ==
    /\ illust_data \in net_ugoira
    /\ LET s1 == [State EXCEPT !.net_ugoira = @ \ {illust_data}]
       IN  Commit(loaded_ugoira_metadata(s1, illust_data,
                     [error |-> FALSE, body |-> "frames"]))
    /\ UNCHANGED ops

\* ugoira_meta answers with an error result.
UgoiraFetchFails(illust_data) ==
    /\ illust_data \in net_ugoira
    /\ LET s1 == [State EXCEPT
                    !.net_ugoira = @ \ {illust_data},
                    !.failed = @ \cup
                        {<<"ugoira", illust_objs[illust_data].illustId>>}]
       IN  Commit(loaded_ugoira_metadata(s1, illust_data,
                     [error |-> TRUE, body |-> "error"]))
    /\ UNCHANGED ops

\* The oldest setTimeout(f, 0) callback runs.
RunTimer ==
    /\ timers # <<>>
    /\ LET task == Head(timers)
           s1 == [State EXCEPT !.timers = Tail(@)]
       IN  Commit(IF task.op = "load_user_info"
                  THEN load_user_info(s1, task.arg)
                  ELSE call_pending_callbacks(s1))
    /\ UNCHANGED ops

Next ==
    \/ \E illust_id \in Items, with_callback \in BOOLEAN :
            RequestItem(illust_id, with_callback)
    \/ \E user_id \in Users, with_callback \in BOOLEAN :
            RequestOwner(user_id, with_callback)
    \/ \E illust_id \in Items : InjectItem(illust_id)
    \/ \E user_id \in Users : InjectOwner(user_id)
    \/ \E illust_id \in Items, user_id \in Users :
            NoteOwnerForItem(illust_id, user_id)
    \/ \E illust_id \in Items : IllustFetchSucceeds(illust_id)
    \/ \E illust_id \in Items : IllustFetchFails(illust_id)
    \/ \E user_id \in Users : UserFetchSucceeds(user_id)
    \/ \E user_id \in Users : UserFetchFails(user_id)
    \/ \E illust_data \in net_ugoira : UgoiraFetchSucceeds(illust_data)
    \/ \E illust_data \in net_ugoira : UgoiraFetchFails(illust_data)
    \/ RunTimer

Spec == Init /\ [][Next]_vars

\* A step of the browser rather than of the view layer: a timer runs or the
\* transport answers a request, with the record or with an error.
BrowserStep ==
    \/ RunTimer
    \/ \E illust_id \in Items :
            IllustFetchSucceeds(illust_id) \/ IllustFetchFails(illust_id)
    \/ \E user_id \in Users :
            UserFetchSucceeds(user_id) \/ UserFetchFails(user_id)
    \/ \E illust_data \in net_ugoira :
            UgoiraFetchSucceeds(illust_data) \/ UgoiraFetchFails(illust_data)

\* The browser does not stop while a timer is queued or a request is
\* unanswered.
Fairness == WF_vars(BrowserStep)

LiveSpec == Init /\ [][Next]_vars /\ Fairness

\* The view layer calls get_image_info with a callback that throws.
RequestItemThrowing(illust_id) ==
    /\ ops < MaxOps
    /\ ops' = ops + 1
    /\ Commit(get_image_info(State, illust_id, Throws))

\* The view layer calls get_user_info with a callback that throws.
RequestOwnerThrowing(user_id) ==
    /\ ops < MaxOps
    /\ ops' = ops + 1
    /\ Commit(get_user_info(State, user_id, Throws))

\* The cache with callbacks that return and callbacks that throw.
ThrowNext ==
    \/ Next
    \/ \E illust_id \in Items : RequestItemThrowing(illust_id)
    \/ \E user_id \in Users : RequestOwnerThrowing(user_id)

ThrowSpec == Init /\ [][ThrowNext]_vars

\* A data source calls add_illust_data and then add_user_data for the
\* illustration's user, in one handler.
InjectItemThenOwner(illust_id) ==
    /\ ops + 2 <= MaxOps
    /\ ops' = ops + 2
    /\ \E s1 \in {alloc_illust(State, illust_id)} :
       \E s2 \in {add_illust_data(s1, Len(s1.illust_objs))} :
       \E s3 \in {alloc_user(s2, s2.illust_objs[Len(s1.illust_objs)].userId)} :
            Commit(add_user_data(s3, Len(s3.user_objs)))

\* The cache with data sources that hand over an illustration and its user
\* together.
TurnNext ==
    \/ Next
    \/ \E illust_id \in Items : InjectItemThenOwner(illust_id)

TurnSpec == Init /\ [][TurnNext]_vars

\* The view layer calls get_image_info with a callback that calls back into
\* the cache; the call its callback will make is counted with it.
RequestItemReentrant(illust_id, behaviour) ==
    /\ ops + 2 <= MaxOps
    /\ ops' = ops + 2
    /\ Commit(get_image_info(State, illust_id, behaviour))

\* The view layer calls get_user_info with a callback that calls back into
\* the cache; the call its callback will make is counted with it.
RequestOwnerReentrant(user_id, behaviour) ==
    /\ ops + 2 <= MaxOps
    /\ ops' = ops + 2
    /\ Commit(get_user_info(State, user_id, behaviour))

\* The cache with callbacks that return and callbacks that re-enter it.
ReentrantNext ==
    \/ Next
    \/ \E illust_id \in Items, behaviour \in Reentrant :
            RequestItemReentrant(illust_id, behaviour)
    \/ \E user_id \in Users, behaviour \in Reentrant :
            RequestOwnerReentrant(user_id, behaviour)

ReentrantSpec == Init /\ [][ReentrantNext]_vars

(* ---------------------------------------------------------------------- *)
(* Actions of image_preloader                                              *)
(* ---------------------------------------------------------------------- *)

\* How the transfer of a started preload can end.
Outcomes == {"loaded", "failed", "aborted"}

\* The view layer calls set_current_image(illust_id); illust_id may be null.
SetCurrentImage(illust_id) ==
    /\ target_changes < MaxTargetChanges
    /\ PCommit(set_current_image(PState, illust_id))

\* The view layer calls set_speculative_image(illust_id).
SetSpeculativeImage(illust_id) ==
    /\ target_changes < MaxTargetChanges
    /\ PCommit(set_speculative_image(PState, illust_id))

\* A suspended set_current_image(illust_id) call gets its illust_info.
CurrentInfoArrives(illust_id) ==
    /\ awaiting[<<"current", illust_id>>] > 0
    /\ PCommit(set_current_image_resumed(
            [PState EXCEPT !.awaiting[<<"current", illust_id>>] = @ - 1],
            illust_id, illust_id))

\* A suspended set_speculative_image(illust_id) call gets its illust_info.
SpeculativeInfoArrives(illust_id) ==
    /\ awaiting[<<"speculative", illust_id>>] > 0
    /\ PCommit(set_speculative_image_resumed(
            [PState EXCEPT !.awaiting[<<"speculative", illust_id>>] = @ - 1],
            illust_id, illust_id))

\* The ways the transfer of a task can end: as aborted only when abort()
\* reached it, and then not as loaded.
CanEndAs(task, outcome) ==
    /\ outcome = "aborted" => task.aborted
    /\ outcome = "loaded" => ~task.aborted

\* The transfer of the started preload settles and its finally handler runs.
PreloadSettles(preload, outcome) ==
    /\ preload \in DOMAIN preload_objs
    /\ ~preload_objs[preload].settled
    /\ CanEndAs(preload_objs[preload], outcome)
    /\ \E s \in {[PState EXCEPT !.preload_objs[preload].settled = TRUE]} :
            PCommit(preload_finished(s, preload, outcome))

PreloadNext ==
    \/ \E illust_id \in TargetIds \cup {NULL} : SetCurrentImage(illust_id)
    \/ \E illust_id \in TargetIds \cup {NULL} : SetSpeculativeImage(illust_id)
    \/ \E illust_id \in TargetIds : CurrentInfoArrives(illust_id)
    \/ \E illust_id \in TargetIds : SpeculativeInfoArrives(illust_id)
    \/ \E preload \in DOMAIN preload_objs, outcome \in Outcomes :
            PreloadSettles(preload, outcome)

PreloadSpec == Init /\ [][PreloadNext]_<<vars, pvars>>

\* The long run: the manga LongId is made the current target and its
\* preloads settle one after the other.
LongRunNext ==
    \/ SetCurrentImage(LongId)
    \/ CurrentInfoArrives(LongId)
    \/ \E preload \in DOMAIN preload_objs, outcome \in Outcomes :
            /\ Len(preload_objs) < LongRunStarts
            /\ PreloadSettles(preload, outcome)

LongRunSpec == Init /\ [][LongRunNext]_<<vars, pvars>>

\* The transfer of some started preload settles.
SettleStep ==
    \E preload \in DOMAIN preload_objs, outcome \in Outcomes :
        PreloadSettles(preload, outcome)

\* Every started transfer settles in the end, one way or another.
PreloadLiveSpec ==
    Init /\ [][PreloadNext]_<<vars, pvars>> /\ WF_<<vars, pvars>>(SettleStep)

(* ---------------------------------------------------------------------- *)
(* Properties                                                              *)
(* ---------------------------------------------------------------------- *)

\* Positions of the entries of a pending queue that wait for id.
WaitingFor(queue, id) == {i \in DOMAIN queue : queue[i][1] = id}

\* Handles registered by get_image_info / get_user_info.
ImageCallbacks == {c \in DOMAIN callbacks : callbacks[c][1] = "image"}
UserCallbacks == {c \in DOMAIN callbacks : callbacks[c][1] = "user"}

C2_CallbackOnceWithOwner ==
    \A c \in ImageCallbacks :
        /\ Len(fired[c]) <= 1
        /\ \A n \in DOMAIN fired[c] :
            /\ fired[c][n].arg # NULL
            /\ fired[c][n].cached_illust = fired[c][n].arg
            /\ illust_objs[fired[c][n].arg].illustId = callbacks[c][2]
            /\ fired[c][n].cached_user # NULL
            /\ user_objs[fired[c][n].cached_user]
                    = illust_objs[fired[c][n].arg].userId
            /\ fired[c][n].userInfo = fired[c][n].cached_user

\* C2 witness: two get_image_info callbacks have run.
C2_Witness ==
    \E c, d \in ImageCallbacks : c # d /\ fired[c] # <<>> /\ fired[d] # <<>>

\* A fetch that callback c depends on has answered with an error.
DependencyFailed(c) ==
    IF callbacks[c][1] = "image"
    THEN \/ <<"image", callbacks[c][2]>> \in failed
         \/ <<"ugoira", callbacks[c][2]>> \in failed
         \/ <<"user", SiteUserId(callbacks[c][2])>> \in failed
    ELSE <<"user", callbacks[c][2]>> \in failed

\* C3: every callback registered by get_image_info or get_user_info is
\* eventually invoked, unless a fetch it depends on (the illustration, its
\* ugoira metadata, the illustration's user; or the user asked for) answered
\* with an error.
C3_CallbacksEventuallyFire ==
    \A c \in CallbackIds :
        (c \in DOMAIN callbacks) ~>
            (c \in DOMAIN callbacks /\ (fired[c] # <<>> \/ DependencyFailed(c)))

\* C3 witness: with no fetch failed, a callback for the video (illustration 2)
\* and a get_user_info callback have both run.
C3_Witness ==
    /\ failed = {}
    /\ \E c \in ImageCallbacks : callbacks[c][2] = 2 /\ fired[c] # <<>>
    /\ \E c \in UserCallbacks : fired[c] # <<>>

\* C4 (as claimed): the step that delivers an error result for an
\* illustration or a user leaves that id out of the loading set.
C4_FailureClearsMarker ==
    [][/\ \A illust_id \in Items :
            IllustFetchFails(illust_id) => illust_id \notin loading_image_data_ids'
       /\ \A user_id \in Users :
            UserFetchFails(user_id) => user_id \notin loading_user_data_ids']_vars

\* C5: the step that delivers an error result changes neither cache map nor
\* either pending queue, and runs no callback.
C5_FailureChangesNothing ==
    [][(\/ \E illust_id \in Items : IllustFetchFails(illust_id)
        \/ \E user_id \in Users : UserFetchFails(user_id))
       => UNCHANGED <<image_data, user_data, pending_image_info_calls,
                      pending_user_info_calls, fired>>]_vars

\* C5 witness: an illustration fetch and a user fetch have failed, nothing is
\* cached for either id, and a caller of each is still queued.
C5_Witness ==
    \E illust_id \in Items, user_id \in Users :
        /\ <<"image", illust_id>> \in failed
        /\ image_data[illust_id] = NULL
        /\ WaitingFor(pending_image_info_calls, illust_id) # {}
        /\ <<"user", user_id>> \in failed
        /\ user_data[user_id] = NULL
        /\ WaitingFor(pending_user_info_calls, user_id) # {}

\* C6 (as claimed): an illustration whose ugoira metadata fetch answered with
\* an error is never stored in the cache and never handed to a callback.
C6_FailedUgoiraNotStored ==
    /\ \A illust_id \in Items :
            image_data[illust_id] # NULL =>
                illust_objs[image_data[illust_id]].ugoiraMetadata # "error"
    /\ \A c \in ImageCallbacks : \A n \in DOMAIN fired[c] :
            illust_objs[fired[c][n].arg].ugoiraMetadata # "error"

\* C7 (as claimed): a video is cached, and handed to callbacks, only with its
\* ugoira metadata retrieved; and while its primary or its ugoira fetch is in
\* flight and nothing is stored yet, its id is in the loading set.
C7_VideoStoredWithMetadata ==
    \A illust_id \in Items :
        SiteIllustType(illust_id) = 2 =>
            /\ image_data[illust_id] # NULL =>
                    illust_objs[image_data[illust_id]].ugoiraMetadata = "frames"
            /\ \A c \in ImageCallbacks : \A n \in DOMAIN fired[c] :
                    callbacks[c][2] = illust_id =>
                        illust_objs[fired[c][n].arg].ugoiraMetadata = "frames"
            /\ (/\ image_data[illust_id] = NULL
                /\ \/ net_illust[illust_id] > 0
                   \/ \E o \in net_ugoira : illust_objs[o].illustId = illust_id)
                => illust_id \in loading_image_data_ids

\* C8 (as claimed): two different illustrations of the same user that have
\* both been handed to callbacks have the same userInfo object.
C8_OwnerShared ==
    \A c, d \in ImageCallbacks :
        \A m \in DOMAIN fired[c], n \in DOMAIN fired[d] :
            LET a == illust_objs[fired[c][m].arg]
                b == illust_objs[fired[d][n].arg]
            IN  (a.illustId # b.illustId /\ a.userId = b.userId)
                    => a.userInfo = b.userInfo

\* C9: whatever hint was recorded for an illustration, the userInfo handed to
\* its callback is a record of the illustration's own user, never of a
\* different hinted user.
C9_HintNeverAttached ==
    \A c \in ImageCallbacks : \A n \in DOMAIN fired[c] :
        /\ fired[c][n].userInfo # NULL
        /\ user_objs[fired[c][n].userInfo] = SiteUserId(callbacks[c][2])

\* C9 witness: a callback has run for an illustration hinted to belong to
\* another user, after the hinted user's fetch was started.
C9_Witness ==
    \E c \in ImageCallbacks :
        LET hinted == illust_id_to_user_id[callbacks[c][2]]
        IN  /\ fired[c] # <<>>
            /\ hinted # NULL
            /\ hinted # SiteUserId(callbacks[c][2])
            /\ \/ hinted \in loading_user_data_ids
               \/ user_data[hinted] # NULL

\* C10: a get_image_info or get_user_info step runs no callback.
C10_NoSynchronousCallback ==
    [][(\/ \E illust_id \in Items, with_callback \in BOOLEAN :
                RequestItem(illust_id, with_callback)
        \/ \E user_id \in Users, with_callback \in BOOLEAN :
                RequestOwner(user_id, with_callback))
       => fired' = fired]_vars

\* C10 witness: get_image_info was called with a callback while the
\* illustration and its user were both cached, and the callback is still
\* queued, not called.
C10_Witness ==
    \E i \in DOMAIN pending_image_info_calls :
        LET c == pending_image_info_calls[i][2]
        IN  callbacks[c][3] /\ fired[c] = <<>>

\* The cache maps, loading sets, pending queues, timer queue and callback
\* record of state record s are those of the next state.
SameCacheEffect(s) ==
    /\ image_data' = s.image_data
    /\ user_data' = s.user_data
    /\ loading_image_data_ids' = s.loading_image_data_ids
    /\ loading_user_data_ids' = s.loading_user_data_ids
    /\ pending_image_info_calls' = s.pending_image_info_calls
    /\ pending_user_info_calls' = s.pending_user_info_calls
    /\ timers' = s.timers
    /\ net_ugoira' = s.net_ugoira
    /\ fired' = s.fired

\* C11: an add_illust_data / add_user_data step leaves the cache maps, the
\* loading sets, the pending queues, the timer queue and the callbacks run
\* exactly as the arrival of a successful response with the same record would,
\* and starts or drops no /ajax/illust or /ajax/user request; a response that
\* arrives later is stored as the cached record (a video's once its ugoira
\* metadata is in), and no callback ever runs a second time.
C11_InjectLikeFetch ==
    [][/\ \A illust_id \in Items :
            InjectItem(illust_id) =>
                /\ LET s1 == alloc_illust(State, illust_id)
                   IN  SameCacheEffect(loaded_image_info(s1,
                            [error |-> FALSE, body |-> Len(s1.illust_objs)]))
                /\ UNCHANGED <<net_illust, net_user>>
       /\ \A user_id \in Users :
            InjectOwner(user_id) =>
                /\ LET s1 == alloc_user(State, user_id)
                   IN  SameCacheEffect(loaded_user_info(s1,
                            [error |-> FALSE, body |-> Len(s1.user_objs)]))
                /\ user_data'[user_id] = Len(user_objs')
                /\ UNCHANGED <<net_illust, net_user>>
       /\ \A illust_id \in Items :
            (IllustFetchSucceeds(illust_id) /\ SiteIllustType(illust_id) # 2)
                => image_data'[illust_id] = Len(illust_objs')
       /\ \A illust_data \in net_ugoira :
            UgoiraFetchSucceeds(illust_data)
                => image_data'[illust_objs[illust_data].illustId] = illust_data
       /\ \A user_id \in Users :
            UserFetchSucceeds(user_id) => user_data'[user_id] = Len(user_objs')
       /\ \A c \in CallbackIds : Len(fired'[c]) <= 1]_vars

\* C11 witness: an illustration was injected while its fetch was in flight;
\* the fetch is still unanswered, the injected record is cached and a callback
\* waiting for it has run.
C11_Witness ==
    \E c \in ImageCallbacks :
        /\ net_illust[callbacks[c][2]] = 1
        /\ image_data[callbacks[c][2]] # NULL
        /\ ~callbacks[c][3]
        /\ fired[c] # <<>>

\* The callback handles queued in either pending list.
Queued ==
    {pending_image_info_calls[i][2] : i \in DOMAIN pending_image_info_calls}
    \cup {pending_user_info_calls[i][2] : i \in DOMAIN pending_user_info_calls}

\* Everything callback c waits for is cached.
Ready(c) ==
    IF callbacks[c][1] = "image"
    THEN /\ image_data[callbacks[c][2]] # NULL
         /\ user_data[illust_objs[image_data[callbacks[c][2]]].userId] # NULL
    ELSE user_data[callbacks[c][2]] # NULL

\* The step runs call_pending_callbacks.
ScanStep ==
    \/ \E user_id \in Users : UserFetchSucceeds(user_id)
    \/ \E user_id \in Users : InjectOwner(user_id)
    \/ timers # <<>> /\ Head(timers).op = "call_pending_callbacks" /\ RunTimer

\* C21: in a step that runs call_pending_callbacks, with callbacks that
\* throw among those queued, every queued callback whose illustration and
\* user (or user) are cached is taken out of its queue and called once, the
\* throwing ones included, and the others stay queued and are not called;
\* each exception is caught and logged, one console.error per throwing
\* callback called; a callback that was called is in no queue.
C21_ThrowDoesNotStopScan ==
    [][/\ ScanStep =>
            /\ \A c \in Queued :
                    IF Ready(c)'
                    THEN Len(fired'[c]) = Len(fired[c]) + 1 /\ c \notin Queued'
                    ELSE fired'[c] = fired[c] /\ c \in Queued'
            /\ console' = console
                    + Cardinality({c \in Queued :
                                    Ready(c)' /\ callbacks[c][4] = Throws})
       /\ \A c \in DOMAIN callbacks' :
            fired'[c] # <<>> => c \notin Queued' /\ Len(fired'[c]) = 1
       /\ console' # console => ScanStep
      ]_vars

\* C21 witness: two callbacks waited for the same illustration, the one
\* queued first throws; both have been called, in one scan (the second was
\* queued before anything it waits for was cached), and one exception was
\* logged.
C21_Witness ==
    \E c, d \in ImageCallbacks :
        /\ c < d
        /\ callbacks[c][2] = callbacks[d][2]
        /\ callbacks[c][4] = Throws
        /\ ~callbacks[c][3] /\ ~callbacks[d][3]
        /\ fired[c] # <<>> /\ fired[d] # <<>>
        /\ console = 1

\* C27: a handler that calls add_illust_data for an illustration and then
\* add_user_data for its user issues no /ajax/user request: the user is
\* cached and not marked as loading after it; for an illustration that is not
\* a video the load_user_info call is left in the timer queue and the
\* callbacks waiting for the illustration are called in the handler, once,
\* with the injected illust_data whose userInfo is the injected user_data;
\* for a video the call waits for the metadata.  A load_user_info timer that
\* runs when its user is cached issues no request and queues a scan, and a
\* cached user stays cached, so the deferred call never fetches the user.
C27_InjectedOwnerNotFetched ==
    [][/\ \A illust_id \in Items :
            InjectItemThenOwner(illust_id) =>
                /\ net_user' = net_user
                /\ user_data'[SiteUserId(illust_id)] = Len(user_objs')
                /\ Len(user_objs') = Len(user_objs) + 1
                /\ SiteUserId(illust_id) \notin loading_user_data_ids'
                /\ load_user_info(State', SiteUserId(illust_id)).net_user
                        = net_user
                /\ IF SiteIllustType(illust_id) = 2
                   THEN /\ Len(illust_objs') \in net_ugoira'
                        /\ timers' = timers
                   ELSE /\ timers' = Append(timers,
                                [op |-> "load_user_info",
                                 arg |-> SiteUserId(illust_id)])
                        /\ image_data'[illust_id] = Len(illust_objs')
                        /\ \A c \in Queued :
                            (callbacks[c][1] = "image"
                                /\ callbacks[c][2] = illust_id) =>
                                    /\ c \notin Queued'
                                    /\ Len(fired'[c]) = 1
                                    /\ fired'[c][1].arg = Len(illust_objs')
                                    /\ fired'[c][1].userInfo = Len(user_objs')
       /\ (/\ timers # <<>>
           /\ Head(timers).op = "load_user_info"
           /\ user_data[Head(timers).arg] # NULL
           /\ RunTimer) =>
                /\ net_user' = net_user
                /\ timers' = Append(Tail(timers),
                                [op |-> "call_pending_callbacks", arg |-> NULL])
       /\ \A user_id \in Users :
            user_data[user_id] # NULL => user_data'[user_id] # NULL
      ]_vars

\* C27 witness: a callback waited for illustration 1, whose request is still
\* in flight; it has been called with a record that did not come from the
\* network, the load_user_info call for the user is still in the timer queue
\* and no request for the user was made.
C27_Witness ==
    \E c \in ImageCallbacks :
        /\ callbacks[c][2] = 1
        /\ ~callbacks[c][3]
        /\ fired[c] # <<>>
        /\ net_illust[1] > 0
        /\ net_user[SiteUserId(1)] = 0
        /\ <<"user", SiteUserId(1)>> \notin failed
        /\ Len(user_objs) = 1
        /\ Len(illust_objs) = 1
        /\ fired[c][1].arg = 1 /\ fired[c][1].userInfo = 1
        /\ timers = <<[op |-> "load_user_info", arg |-> SiteUserId(1)]>>
        /\ ops = MaxOps

\* A call_pending_callbacks call is in the timer queue.
ScanScheduled ==
    \E i \in DOMAIN timers : timers[i].op = "call_pending_callbacks"

\* A request is in flight whose response stores what callback c waits for.
FetchPendingFor(c) ==
    IF callbacks[c][1] = "image"
    THEN \/ net_illust[callbacks[c][2]] > 0
         \/ \E illust_data \in net_ugoira :
                illust_objs[illust_data].illustId = callbacks[c][2]
         \/ net_user[illust_objs[image_data[callbacks[c][2]]].userId] > 0
    ELSE net_user[callbacks[c][2]] > 0

\* A load_user_info call for a cached user is in the timer queue: it will
\* put call_pending_callbacks into the timer queue.
OwnerLoadScheduled ==
    \E i \in DOMAIN timers :
        /\ timers[i].op = "load_user_info"
        /\ user_data[timers[i].arg] # NULL

\* C29 as stated: with callbacks that call get_image_info, get_user_info,
\* add_illust_data or add_user_data, no callback is called twice, and a
\* queued callback whose data is cached when a scan step ends has a
\* call_pending_callbacks timer queued or a request in flight for it.
C29_ReentrantScanScheduled ==
    [][/\ \A c \in DOMAIN callbacks' : Len(fired'[c]) <= 1
       /\ ScanStep =>
            \A c \in Queued' :
                Ready(c)' => ScanScheduled' \/ FetchPendingFor(c)'
      ]_vars

\* The metadata request of a video record of callback c's illustration is in
\* flight.
UgoiraPendingFor(c) ==
    /\ callbacks[c][1] = "image"
    /\ \E illust_data \in net_ugoira :
            illust_objs[illust_data].illustId = callbacks[c][2]

\* C29 (amended): with callbacks that call get_image_info, get_user_info,
\* add_illust_data or add_user_data, no callback is called twice, and a
\* queued callback whose data is cached when a scan step ends has a
\* call_pending_callbacks timer queued, or a load_user_info timer for a
\* cached user queued, or the metadata request of its illustration in
\* flight; a load_user_info timer for a cached user puts
\* call_pending_callbacks into the timer queue when it runs.
C29_ReentrantScanOrOwnerLoad ==
    [][/\ \A c \in DOMAIN callbacks' : Len(fired'[c]) <= 1
       /\ ScanStep =>
            \A c \in Queued' :
                Ready(c)' =>
                    \/ ScanScheduled'
                    \/ OwnerLoadScheduled'
                    \/ UgoiraPendingFor(c)'
       /\ (/\ timers # <<>>
           /\ Head(timers).op = "load_user_info"
           /\ user_data[Head(timers).arg] # NULL
           /\ RunTimer) => ScanScheduled'
      ]_vars

\* C29 witness: the callback of a get_image_info call calls add_user_data
\* for user 2 and has run; a callback that waited for user 2 has been called
\* by the scan of that add_user_data: the request for user 2 is still in
\* flight and the view layer made no other call.
C29_Witness ==
    \E c \in ImageCallbacks, d \in UserCallbacks :
        /\ callbacks[c][4] = <<"add_user_data", 2>>
        /\ fired[c] # <<>>
        /\ callbacks[d][2] = 2
        /\ ~callbacks[d][3]
        /\ Len(fired[d]) = 1
        /\ net_user[2] > 0
        /\ Len(callbacks) = 2

(* ---------------------------------------------------------------------- *)
(* Properties of image_preloader                                           *)
(* ---------------------------------------------------------------------- *)

\* Started preloads whose transfer has not settled.
Unsettled == {p \in DOMAIN preload_objs : ~preload_objs[p].settled}

\* Started preloads that have not settled and were not asked to cancel.
Running == {p \in Unsettled : ~preload_objs[p].aborted}

\* The step starts a preload.
StartsPreload == Len(preload_objs') > Len(preload_objs)

Urls(preload_list) == [i \in DOMAIN preload_list |-> preload_list[i].url]

\* The URLs in recently_preloaded_urls.
RecentUrls == {recently_preloaded_urls[i] : i \in DOMAIN recently_preloaded_urls}

\* The candidate URLs of a target's stored illust_info, in derivation order.
CandidateUrls(illust_info) ==
    IF illust_info = NULL THEN <<>>
    ELSE Urls(create_preloaders_for_illust(IllustInfo(illust_info)))

\* The n-th smallest element of a set of numbers.
NthOf(S, n) == CHOOSE x \in S : Cardinality({y \in S : y < x}) = n - 1

scheduler_state ==
    <<current_illust_id, current_illust_info, speculative_illust_id,
      speculative_illust_info, preloads, recently_preloaded_urls,
      preload_objs, thumbs_preloaded>>

ReconciledUrls ==
    UNION {{list[i].url : i \in DOMAIN list} :
                list \in {filtered_preloads(PState)}}

Active == {preloads[i] : i \in DOMAIN preloads}

Reconciled ==
    \A list \in {filtered_preloads(PState)} :
        \/ list = <<>>
        \/ \E i \in DOMAIN list, p \in Active :
                preload_objs[p].url = list[i].url

CandidateInputs ==
    {MakeIllustInfo(7, user_id, illust_type, tags, pages) :
        user_id \in {1, 9}, illust_type \in {0, 2},
        tags \in {{"tag"}, {"tag", "muted"}}, pages \in 0..MaxInputPages}

\* What C19 says create_preloaders_for_illust returns for illust_data.
DerivesAsClaimed(illust_data) ==
    \A results \in {create_preloaders_for_illust(illust_data)} :
        LET id == illust_data.illustId
            n == Len(illust_data.mangaPages)
        IN  IF \/ illust_data.tags.tags \cap MutedTags # {}
               \/ illust_data.userId \in MutedUserIds
            THEN results = <<>>
            ELSE IF illust_data.illustType = 2
            THEN results = <<[url |-> Url(id, "zip", 0), strategy |-> "xhr"],
                             [url |-> Url(id, "original", 1),
                              strategy |-> "img"]>>
            ELSE /\ Len(results) = IF n >= 1 THEN n + 1 ELSE 0
                 /\ \A p \in 1..n :
                        results[p] = [url |-> Url(id, "small", p),
                                      strategy |-> "img"]
                 /\ n >= 1 =>
                        results[n + 1] = [url |-> Url(id, "original", 1),
                                          strategy |-> "img"]
                 /\ \A i \in DOMAIN results, p \in 2..n :
                        results[i].url # Url(id, "original", p)

\* C19: create_preloaders_for_illust returns nothing for an illustration
\* muted by tag or by user; for a video the archive (XHR) and then the
\* original image (img); otherwise the small image of each page in page
\* order and then the original of the first page only, n + 1 preloaders for
\* n >= 1 pages and none for no page.  Checked on the illust_info of every
\* target and on the records of CandidateInputs.
C19_CandidatesDerived ==
    /\ \A illust_data \in CandidateInputs : DerivesAsClaimed(illust_data)
    /\ \A illust_info \in {current_illust_info, speculative_illust_info} :
            illust_info # NULL => DerivesAsClaimed(IllustInfo(illust_info))

\* C19 witness: with the video 2 as current and the four-page manga 3 as
\* speculative target, the preloads started so far are, in order, the
\* archive (XHR) and the original image of 2, then the four small images of
\* 3 and the original of its first page.
C19_Witness ==
    /\ current_illust_info = 2
    /\ speculative_illust_info = 3
    /\ Len(preload_objs) = 7
    /\ [i \in 1..7 |-> <<preload_objs[i].url, preload_objs[i].strategy>>]
            = << <<Url(2, "zip", 0), "xhr">>, <<Url(2, "original", 1), "img">>,
                 <<Url(3, "small", 1), "img">>, <<Url(3, "small", 2), "img">>,
                 <<Url(3, "small", 3), "img">>, <<Url(3, "small", 4), "img">>,
                 <<Url(3, "original", 1), "img">> >>

\* Every target that is set has its illust_info stored: the preloader waits
\* for no illust_info of its present targets.
TargetsResolved ==
    /\ current_illust_id # NULL => current_illust_info # NULL
    /\ speculative_illust_id # NULL => speculative_illust_info # NULL

\* The candidate URLs of the two targets.
WantedUrls ==
    {CandidateUrls(current_illust_info)[i] :
        i \in DOMAIN CandidateUrls(current_illust_info)}
    \cup {CandidateUrls(speculative_illust_info)[i] :
            i \in DOMAIN CandidateUrls(speculative_illust_info)}

UnstartedPreloads ==
    {new_img_preloader(Url(1, "small", 1)), new_xhr_preloader(Url(2, "zip", 0))}
    \cup UNION {{list[i] : i \in DOMAIN list} :
                    list \in {filtered_preloads(PState)}}

AtCheckAfterInfo(slot, illust_id) ==
    preload_thumbs(
        IF slot = "current"
        THEN [PState EXCEPT !.awaiting[<<slot, illust_id>>] = @ - 1,
                            !.current_illust_info = illust_id]
        ELSE [PState EXCEPT !.awaiting[<<slot, illust_id>>] = @ - 1,
                            !.speculative_illust_info = illust_id],
        illust_id)

\* The preloader's state when the finally handler of preload p reaches its
\* check_fetch_queue call.
AtCheckAfterSettle(p) ==
    [PState EXCEPT !.preload_objs[p].settled = TRUE,
                   !.recently_preloaded_urls = remember_url(@, preload_objs[p].url),
                   !.preloads = SelectSeq(@, LAMBDA q : q # p)]

\* The step ends as C23 says a check_fetch_queue call from state s ends:
\* with one new preload, started for the first entry of the list, when the
\* list is not empty and no entry's URL is that of a preload in
\* this.preloads; with no new preload and no preload cancelled otherwise.
StartsAsClaimed(s) ==
    \A list \in {filtered_preloads(s)} :
        IF /\ list # <<>>
           /\ \A i \in DOMAIN list, j \in DOMAIN s.preloads :
                    s.preload_objs[s.preloads[j]].url # list[i].url
        THEN /\ Len(preload_objs') = Len(s.preload_objs) + 1
             /\ \A new \in {preload_objs'[Len(preload_objs')]} :
                    /\ new.url = list[1].url
                    /\ new.strategy = list[1].strategy
                    /\ new.starts = 1 /\ ~new.aborted /\ ~new.settled
             /\ preloads'[1] = Len(preload_objs')
        ELSE /\ preload_objs' = s.preload_objs
             /\ preloads' = s.preloads

EmptyListChangesNothing(s) ==
    filtered_preloads(s) = <<>> =>
        /\ PState' = s
        /\ \A p \in DOMAIN s.preload_objs :
                /\ preload_objs'[p].aborted = s.preload_objs[p].aborted
                /\ preload_objs'[p].settled = s.preload_objs[p].settled
        /\ Len(preload_objs') = Len(s.preload_objs)
        /\ preloads' = s.preloads
        /\ recently_preloaded_urls' = s.recently_preloaded_urls

C25_WitnessRecent ==
    \E p \in Unsettled :
        /\ current_illust_info # NULL
        /\ CandidateUrls(current_illust_info) # <<>>
        /\ \A i \in DOMAIN CandidateUrls(current_illust_info) :
                CandidateUrls(current_illust_info)[i] \in RecentUrls
        /\ filtered_preloads(PState) = <<>>
        /\ preloads = <<p>>

Range(seq) == {seq[i] : i \in DOMAIN seq}

\* The candidate URLs of illust_info that are not in recently_preloaded_urls,
\* in derivation order.
FreshCandidateUrls(illust_info) ==
    SelectSeq(CandidateUrls(illust_info), LAMBDA url : url \notin RecentUrls)

\* The running preloads that load a candidate of the speculative target
\* which is no candidate of illustration illust_id.
RunningSpeculative(illust_id) ==
    {p \in Running :
        /\ preload_objs[p].url \in Range(CandidateUrls(speculative_illust_info))
        /\ preload_objs[p].url \notin Range(CandidateUrls(illust_id))}

\* The step cancels preload p and starts a preload for the first candidate
\* of illust_id that did not finish recently.
Overrides(p, illust_id) ==
    /\ preload_objs'[p].aborted
    /\ ~preload_objs'[p].settled
    /\ p \in Active'
    /\ StartsPreload
    /\ preload_objs'[Len(preload_objs')].url = FreshCandidateUrls(illust_id)[1]

AllCandidateUrls == UNION {Range(CandidateUrls(illust_id)) : illust_id \in TargetIds}

\* The targets cannot change any more and have their illust_info.
TargetsSettled == target_changes = MaxTargetChanges /\ TargetsResolved

====
